---- MODULE Spec2Model ----
(***************************************************************************)
(* Model of the RPC load balancer (src/service/rpc/generic/LoadBalancer.ts) *)
(* of the SDK: the endpoint registry (rpcUrls, activeUrl), the bootstrap    *)
(* (init, initCustomNodes, initRemoteHostsUrls, initRemoteHosts, checkSSRF), *)
(* the status probe and its scheduler (checkStatuses, checkStatus, destroy),*)
(* the selection policy (getFastestServer) and the dispatcher (rawRpcCall,  *)
(* rawBatchRpcCall, post, handleFailedRpcCall).                             *)
(*                                                                         *)
(* Every asynchronous function is cut at its awaits: one action is the code *)
(* that runs between two suspension points of the single-threaded executor. *)
(* Array indices are 0-based as in the source; a TLA+ sequence is 1-based,  *)
(* so element i of an array s is s[i + 1].                                  *)
(***************************************************************************)
EXTENDS Integers, Sequences, FiniteSets, TLC

\* ------------------------------------------------------------------------
\* Bounds of the model
\* ------------------------------------------------------------------------
\* largest block height a probe response reports
MaxBlock == 1
\* largest response time a probe measures
MaxRt == 1
\* number of init() invocations on the instance
MaxInits == 2
\* number of client calls that may be in flight at once
MaxCalls == 2
\* the count of requests one call has sent saturates here
SentCap == 4
\* largest allowedBlocksBehind of the configuration
MaxAllowed == 1
\* longest endpoint list the selection policy is applied to
MaxServers == 3

\* ------------------------------------------------------------------------
\* Types of the source
\* ------------------------------------------------------------------------
NORMAL == "NORMAL"
ARCHIVE == "ARCHIVE"
RpcNodeType == {NORMAL, ARCHIVE}

\* The other kind (used by the fallback resolvers).
OtherType(nodeType) == IF nodeType = NORMAL THEN ARCHIVE ELSE NORMAL

\* The URLs the model draws from.  UrlParts gives, for a URL that `new URL`
\* parses, its hostname cut into fragments (their concatenation is the
\* hostname); a URL that `new URL` rejects has no entry.
UrlA == "https://a.rpc.tatum.io"
UrlB == "https://b.rpc.tatum.io"
UrlC == "https://c.rpc.tatum.io"
UrlEvil == "https://evil.com/rpc"
UrlLookalike == "https://rpc.tatum.io.evil.com"
UrlBad == "not a url"
Urls == {UrlA, UrlB, UrlC, UrlEvil, UrlLookalike, UrlBad}

UrlParses(url) == url # UrlBad

Hostname(url) ==
  CASE url = UrlA -> <<"a.", "rpc.tatum.io">>
    [] url = UrlB -> <<"b.", "rpc.tatum.io">>
    [] url = UrlC -> <<"c.", "rpc.tatum.io">>
    [] url = UrlEvil -> <<"evil.com">>
    [] url = UrlLookalike -> <<"rpc.tatum.io", ".evil.com">>
    [] OTHER -> <<>>

\* String.prototype.endsWith over fragment sequences.
EndsWith(s, suffix) ==
  /\ Len(suffix) <= Len(s)
  /\ \A i \in 1..Len(suffix) : s[Len(s) - Len(suffix) + i] = suffix[i]

AllowedSuffix == <<"rpc.tatum.io">>

\* An RpcNode of the configuration or of a manifest.
Node(url, type) == [url |-> url, type |-> type]

\* A fresh RpcStatus record, as pushed by initRemoteHosts and initCustomNodes.
FreshStatus(url) == [url |-> url, lastBlock |-> 0, lastResponseTime |-> 0, failed |-> FALSE]

\* activeUrl[k] as constructed ({} as UrlIndex): url and index undefined.
\* The undefined url is the empty string (both are falsy), the undefined
\* index is NoIndex.
NoUrl == ""
NoIndex == -2
EmptyActive == [url |-> NoUrl, index |-> NoIndex]

\* ------------------------------------------------------------------------
\* Configuration (Container.of(id).get(CONFIG)), fixed at construction
\* ------------------------------------------------------------------------
\* Network families that decide the status payload codec.
EVM == "EVM"
TRON == "TRON"
Networks == {EVM, TRON}

\* config.rpc.nodes when supplied (Static mode).
StaticNodeLists ==
  { <<>>,
    <<Node(UrlA, NORMAL)>>,
    <<Node(UrlEvil, ARCHIVE)>>,
    <<Node(UrlA, NORMAL), Node(UrlB, NORMAL)>>,
    <<Node(UrlA, NORMAL), Node(UrlB, ARCHIVE)>> }

\* Bodies a manifest URL may answer with (Remote mode).
Manifests ==
  { <<>>,
    <<Node(UrlA, NORMAL), Node(UrlEvil, NORMAL)>>,
    <<Node(UrlA, NORMAL), Node(UrlB, NORMAL)>>,
    <<Node(UrlB, ARCHIVE), Node(UrlBad, ARCHIVE)>>,
    <<Node(UrlLookalike, NORMAL), Node(UrlA, ARCHIVE)>> }

ConfigsOver(lists, allowed, networks) ==
  { [hasNodes |-> h, nodes |-> n, oneTimeLoadBalancing |-> o,
     allowedBlocksBehind |-> a, network |-> w] :
      h \in BOOLEAN, n \in lists, o \in BOOLEAN, a \in allowed, w \in networks }

\* hasNodes is `if (nodes)`: an empty array is a supplied list too.
Configs ==
  { c \in ConfigsOver(StaticNodeLists, 0..MaxAllowed, Networks) : c.hasNodes \/ c.nodes = <<>> }

VARIABLES
  config,      \* the CONFIG of the instance
  rpcUrls,     \* this.rpcUrls: node type -> array of RpcStatus
  activeUrl,   \* this.activeUrl: node type -> UrlIndex
  timeout,     \* this.timeout: the last timer handle stored (0: undefined)
  timers,      \* timer handles installed by setTimeout and still pending
  initPc,      \* position of the running init(): idle, fetch, archive, checking
  inits,       \* number of init() invocations so far
  offered,     \* URLs handed to initRemoteHosts so far (history)
  passes,      \* checkStatuses() invocations in progress
  probed,      \* whether a checkStatuses() was ever started (history)
  calls,       \* client calls, by slot
  destroyed,   \* destroy() was called and init() was not called since (history)
  passResult   \* how the last checkStatuses() to finish ended (history)

vars == <<config, rpcUrls, activeUrl, timeout, timers, initPc, inits, offered, passes, probed, calls,
          destroyed, passResult>>

\* ------------------------------------------------------------------------
\* Selection policy
\* ------------------------------------------------------------------------
\* The reducer's initial value: lastBlock -Infinity, lastResponseTime
\* Infinity, index -1.  The two infinities are carried by index = -1.
SyntheticWinner == [index |-> -1, url |-> NoUrl, lastBlock |-> 0, lastResponseTime |-> 0]

\* ReduceStep with the reducer started at lastBlock 0 instead of -Infinity.
ReduceStepFromZero(result, item, i, allowedBlocksBehind) ==
  LET isNotFailed == ~item.failed
      isFasterBlock == item.lastBlock - allowedBlocksBehind > result.lastBlock
      isSameBlockFasterResponse ==
        /\ result.index # -1
        /\ item.lastBlock = result.lastBlock
        /\ item.lastResponseTime < result.lastResponseTime
  IN IF isNotFailed /\ (isFasterBlock \/ isSameBlockFasterResponse)
     THEN [index |-> i, url |-> item.url, lastBlock |-> item.lastBlock,
           lastResponseTime |-> item.lastResponseTime]
     ELSE result

\* ReduceStep without the test of the failed flag.
ReduceStepIgnoresFailed(result, item, i, allowedBlocksBehind) ==
  LET isFasterBlock ==
        IF result.index = -1 THEN TRUE
        ELSE item.lastBlock - allowedBlocksBehind > result.lastBlock
      isSameBlockFasterResponse ==
        /\ result.index # -1
        /\ item.lastBlock = result.lastBlock
        /\ item.lastResponseTime < result.lastResponseTime
  IN IF isFasterBlock \/ isSameBlockFasterResponse
     THEN [index |-> i, url |-> item.url, lastBlock |-> item.lastBlock,
           lastResponseTime |-> item.lastResponseTime]
     ELSE result

\* ReduceStep where a fresher candidate must not be slower than the winner.
ReduceStepLatencyGate(result, item, i, allowedBlocksBehind) ==
  LET isNotFailed == ~item.failed
      isFasterBlock ==
        IF result.index = -1 THEN TRUE
        ELSE /\ item.lastBlock - allowedBlocksBehind > result.lastBlock
             /\ item.lastResponseTime <= result.lastResponseTime
      isSameBlockFasterResponse ==
        /\ result.index # -1
        /\ item.lastBlock = result.lastBlock
        /\ item.lastResponseTime < result.lastResponseTime
  IN IF isNotFailed /\ (isFasterBlock \/ isSameBlockFasterResponse)
     THEN [index |-> i, url |-> item.url, lastBlock |-> item.lastBlock,
           lastResponseTime |-> item.lastResponseTime]
     ELSE result

\* ReduceStep without the same-block rule.
ReduceStepBlocksOnly(result, item, i, allowedBlocksBehind) ==
  LET isNotFailed == ~item.failed
      isFasterBlock ==
        IF result.index = -1 THEN TRUE
        ELSE item.lastBlock - allowedBlocksBehind > result.lastBlock
  IN IF isNotFailed /\ isFasterBlock
     THEN [index |-> i, url |-> item.url, lastBlock |-> item.lastBlock,
           lastResponseTime |-> item.lastResponseTime]
     ELSE result

\* ReduceStep with non-strict comparisons.
ReduceStepNonStrict(result, item, i, allowedBlocksBehind) ==
  LET isNotFailed == ~item.failed
      isFasterBlock ==
        IF result.index = -1 THEN TRUE
        ELSE item.lastBlock - allowedBlocksBehind >= result.lastBlock
      isSameBlockFasterResponse ==
        /\ result.index # -1
        /\ item.lastBlock = result.lastBlock
        /\ item.lastResponseTime <= result.lastResponseTime
  IN IF isNotFailed /\ (isFasterBlock \/ isSameBlockFasterResponse)
     THEN [index |-> i, url |-> item.url, lastBlock |-> item.lastBlock,
           lastResponseTime |-> item.lastResponseTime]
     ELSE result

\* ReduceStep whose same-block rule prefers the slower response.
ReduceStepSlowerWins(result, item, i, allowedBlocksBehind) ==
  LET isNotFailed == ~item.failed
      isFasterBlock ==
        IF result.index = -1 THEN TRUE
        ELSE item.lastBlock - allowedBlocksBehind > result.lastBlock
      isSameBlockFasterResponse ==
        /\ result.index # -1
        /\ item.lastBlock = result.lastBlock
        /\ item.lastResponseTime > result.lastResponseTime
  IN IF isNotFailed /\ (isFasterBlock \/ isSameBlockFasterResponse)
     THEN [index |-> i, url |-> item.url, lastBlock |-> item.lastBlock,
           lastResponseTime |-> item.lastResponseTime]
     ELSE result

\* ReduceStep with a tolerance of twice allowedBlocksBehind.
ReduceStepDoubleWindow(result, item, i, allowedBlocksBehind) ==
  LET isNotFailed == ~item.failed
      isFasterBlock ==
        IF result.index = -1 THEN TRUE
        ELSE item.lastBlock - 2 * allowedBlocksBehind > result.lastBlock
      isSameBlockFasterResponse ==
        /\ result.index # -1
        /\ item.lastBlock = result.lastBlock
        /\ item.lastResponseTime < result.lastResponseTime
  IN IF isNotFailed /\ (isFasterBlock \/ isSameBlockFasterResponse)
     THEN [index |-> i, url |-> item.url, lastBlock |-> item.lastBlock,
           lastResponseTime |-> item.lastResponseTime]
     ELSE result

\* One application of the reducer callback to item servers[i + 1] (index i).
ReduceStep(result, item, i, allowedBlocksBehind) ==
  LET isNotFailed == ~item.failed
      isFasterBlock ==
        IF result.index = -1 THEN TRUE
        ELSE item.lastBlock - allowedBlocksBehind > result.lastBlock
      isSameBlockFasterResponse ==
        /\ result.index # -1
        /\ item.lastBlock = result.lastBlock
        /\ item.lastResponseTime < result.lastResponseTime
  IN IF isNotFailed /\ (isFasterBlock \/ isSameBlockFasterResponse)
     THEN [index |-> i, url |-> item.url, lastBlock |-> item.lastBlock,
           lastResponseTime |-> item.lastResponseTime]
     ELSE result

RECURSIVE Reduce(_, _, _, _)
Reduce(servers, allowedBlocksBehind, i, result) ==
  IF i >= Len(servers) THEN result
  ELSE Reduce(servers, allowedBlocksBehind, i + 1,
              ReduceStep(result, servers[i + 1], i, allowedBlocksBehind))

\* getFastestServer reporting the winner's position counted from 1.
getFastestServerOneBased(servers, allowedBlocksBehind) ==
  LET r == Reduce(servers, allowedBlocksBehind, 0, SyntheticWinner)
  IN IF r.index = -1 THEN r ELSE [r EXCEPT !.index = r.index + 1]

\* LoadBalancer.getFastestServer: the winner and its index (-1: none).
getFastestServer(servers, allowedBlocksBehind) ==
  Reduce(servers, allowedBlocksBehind, 0, SyntheticWinner)

\* ------------------------------------------------------------------------
\* Bootstrap
\* ------------------------------------------------------------------------
\* checkSSRF with String.prototype.includes in place of endsWith.
checkSSRFIncludes(url) ==
  IF UrlParses(url)
  THEN \E i \in 1..Len(Hostname(url)) : Hostname(url)[i] = AllowedSuffix[1]
  ELSE FALSE

checkSSRF(url) ==
  IF UrlParses(url) THEN EndsWith(Hostname(url), AllowedSuffix) ELSE FALSE

\* The registry is passed around as [rpcUrls, activeUrl].
Registry(r, a) == [rpcUrls |-> r, activeUrl |-> a]

\* initRemoteHosts appending the nodes without choosing an active url.
initRemoteHostsKeepsActive(reg, nodeType, nodes, noSSRFCheck) ==
  LET filteredNodes ==
        SelectSeq(nodes, LAMBDA node :
          IF noSSRFCheck THEN node.type = nodeType
          ELSE node.type = nodeType /\ checkSSRF(node.url))
      list == reg.rpcUrls[nodeType] \o
              [i \in 1..Len(filteredNodes) |-> FreshStatus(filteredNodes[i].url)]
  IN { Registry([reg.rpcUrls EXCEPT ![nodeType] = list], reg.activeUrl) }

\* initRemoteHosts: the registries it may leave (one per random index).
initRemoteHosts(reg, nodeType, nodes, noSSRFCheck) ==
  LET filteredNodes ==
        SelectSeq(nodes, LAMBDA node :
          IF noSSRFCheck THEN node.type = nodeType
          ELSE node.type = nodeType /\ checkSSRF(node.url))
      list == reg.rpcUrls[nodeType] \o
              [i \in 1..Len(filteredNodes) |-> FreshStatus(filteredNodes[i].url)]
  IN IF Len(filteredNodes) = 0 THEN {reg}
     ELSE { Registry([reg.rpcUrls EXCEPT ![nodeType] = list],
                     [reg.activeUrl EXCEPT ![nodeType] =
                        [url |-> list[randomIndex + 1].url, index |-> randomIndex]]) :
            randomIndex \in 0..(Len(list) - 1) }

\* Both calls made for one node list (NORMAL, then ARCHIVE).
initBothTypes(reg, nodes, noSSRFCheck) ==
  UNION { initRemoteHosts(r, ARCHIVE, nodes, noSSRFCheck) :
          r \in initRemoteHosts(reg, NORMAL, nodes, noSSRFCheck) }

\* The for loop of initCustomNodes: push every node on the list of its type.
RECURSIVE pushNodes(_, _)
pushNodes(urls, nodes) ==
  IF nodes = <<>> THEN urls
  ELSE pushNodes([urls EXCEPT ![Head(nodes).type] = Append(@, FreshStatus(Head(nodes).url))],
                 Tail(nodes))

initCustomNodes(reg, nodes) ==
  { Registry(pushNodes(r.rpcUrls, nodes), r.activeUrl) : r \in initBothTypes(reg, nodes, TRUE) }

\* ------------------------------------------------------------------------
\* URL resolution and failover
\* ------------------------------------------------------------------------
Resolved(url, type) == [ok |-> TRUE, url |-> url, type |-> type]
\* throw new Error('No active node found.')
NoActive == [ok |-> FALSE, url |-> NoUrl, type |-> NORMAL]

\* getActiveArchiveUrlWithFallback trying NORMAL first.
getActiveArchiveUrlNormalFirst(active) ==
  IF active[NORMAL].url # NoUrl THEN Resolved(active[NORMAL].url, NORMAL)
  ELSE IF active[ARCHIVE].url # NoUrl THEN Resolved(active[ARCHIVE].url, ARCHIVE)
  ELSE NoActive

getActiveArchiveUrlWithFallback(active) ==
  IF active[ARCHIVE].url # NoUrl THEN Resolved(active[ARCHIVE].url, ARCHIVE)
  ELSE IF active[NORMAL].url # NoUrl THEN Resolved(active[NORMAL].url, NORMAL)
  ELSE NoActive

\* getActiveNormalUrlWithFallback without its fallback to ARCHIVE.
getActiveNormalUrlNoFallback(active) ==
  IF active[NORMAL].url # NoUrl THEN Resolved(active[NORMAL].url, NORMAL)
  ELSE NoActive

getActiveNormalUrlWithFallback(active) ==
  IF active[NORMAL].url # NoUrl THEN Resolved(active[NORMAL].url, NORMAL)
  ELSE IF active[ARCHIVE].url # NoUrl THEN Resolved(active[ARCHIVE].url, ARCHIVE)
  ELSE NoActive

\* The resolver rawRpcCall(rpcCall, archive) picks.
resolveRpc(active, archive) ==
  IF archive THEN getActiveArchiveUrlWithFallback(active)
  ELSE getActiveNormalUrlWithFallback(active)

\* The archive argument of the recursive call `this.rawRpcCall(rpcCall)`:
\* the parameter is omitted, so it is undefined (falsy).
retryArchiveFlag(archive) == FALSE

\* handleFailedRpcCall without its `index === -1` check.
handleFailedRpcCallUnchecked(reg, nodeType, allowedBlocksBehind) ==
  LET activeIndex == reg.activeUrl[nodeType].index
  IN IF activeIndex = NoIndex THEN [threw |-> TRUE, reg |-> reg]
     ELSE
       LET servers == [reg.rpcUrls[nodeType] EXCEPT ![activeIndex + 1].failed = TRUE]
           fastest == getFastestServer(servers, allowedBlocksBehind)
       IN [threw |-> FALSE,
           reg |-> Registry([reg.rpcUrls EXCEPT ![nodeType] = servers],
                            [reg.activeUrl EXCEPT ![nodeType] =
                               [url |-> fastest.url, index |-> fastest.index]])]

\* handleFailedRpcCall without `servers[activeIndex].failed = true`.
handleFailedRpcCallNoMark(reg, nodeType, allowedBlocksBehind) ==
  LET activeIndex == reg.activeUrl[nodeType].index
  IN IF activeIndex = NoIndex THEN [threw |-> TRUE, reg |-> reg]
     ELSE
       LET fastest == getFastestServer(reg.rpcUrls[nodeType], allowedBlocksBehind)
       IN IF fastest.index = -1 THEN [threw |-> TRUE, reg |-> reg]
          ELSE [threw |-> FALSE,
                reg |-> Registry(reg.rpcUrls,
                                 [reg.activeUrl EXCEPT ![nodeType] =
                                    [url |-> fastest.url, index |-> fastest.index]])]

\* handleFailedRpcCall: [threw, reg].  It has no await, so it runs as one step.
handleFailedRpcCall(reg, nodeType, allowedBlocksBehind) ==
  LET activeIndex == reg.activeUrl[nodeType].index
  IN IF activeIndex = NoIndex THEN [threw |-> TRUE, reg |-> reg]
     ELSE
       LET servers == [reg.rpcUrls[nodeType] EXCEPT ![activeIndex + 1].failed = TRUE]
           marked == Registry([reg.rpcUrls EXCEPT ![nodeType] = servers], reg.activeUrl)
           fastest == getFastestServer(servers, allowedBlocksBehind)
       IN IF fastest.index = -1 THEN [threw |-> TRUE, reg |-> marked]
          ELSE [threw |-> FALSE,
                reg |-> Registry(marked.rpcUrls,
                                 [reg.activeUrl EXCEPT ![nodeType] =
                                    [url |-> fastest.url, index |-> fastest.index]])]

\* ------------------------------------------------------------------------
\* Client calls
\* ------------------------------------------------------------------------
Slots == 1..MaxCalls

\* One client call.  pc: idle (none yet), sent (request outstanding), retry
\* (failure handled, recursive call not yet made), returned, raised (the call
\* is over; the record keeps how it ended).  archive is the caller's
\* argument, flag the argument of the invocation that sent the last request,
\* url and type what that invocation resolved, sentIdx the index that was
\* active for type when it sent, sent the number of requests sent (it
\* saturates at SentCap), err the error raised.
Idle ==
  [pc |-> "idle", op |-> "rpc", archive |-> FALSE, flag |-> FALSE, url |-> NoUrl,
   type |-> NORMAL, sentIdx |-> NoIndex, sent |-> 0, err |-> "none"]

Over(c) == c.pc \in {"idle", "returned", "raised"}

Bump(n) == IF n < SentCap THEN n + 1 ELSE SentCap

Sending(c, r, flag) ==
  [c EXCEPT !.pc = "sent", !.flag = flag, !.url = r.url, !.type = r.type,
            !.sentIdx = activeUrl[r.type].index, !.sent = Bump(c.sent)]

\* A call that is over keeps its operation, its argument, its count and how
\* it ended.
Raising(c, err) ==
  [Idle EXCEPT !.pc = "raised", !.op = c.op, !.archive = c.archive, !.sent = c.sent, !.err = err]

Returning(c) ==
  [Idle EXCEPT !.pc = "returned", !.op = c.op, !.archive = c.archive, !.sent = c.sent,
               !.url = c.url]

\* rawRpcCall(rpcCall, archive) up to its await of connector.rpcCall.
RawRpcCall(s, archive) ==
  /\ Over(calls[s])
  /\ LET r == resolveRpc(activeUrl, archive)
         c == [Idle EXCEPT !.op = "rpc", !.archive = archive, !.flag = archive]
     IN calls' = [calls EXCEPT ![s] = IF r.ok THEN Sending(c, r, archive)
                                      ELSE Raising(c, "NoActiveNode")]
  /\ UNCHANGED <<config, rpcUrls, activeUrl, timeout, timers, initPc, inits, offered, passes, probed, destroyed, passResult>>

\* rawBatchRpcCall(rpcCall) up to its await of connector.rpcCall.
RawBatchRpcCall(s) ==
  /\ Over(calls[s])
  /\ LET r == getActiveArchiveUrlWithFallback(activeUrl)
         c == [Idle EXCEPT !.op = "batch"]
     IN calls' = [calls EXCEPT ![s] = IF r.ok THEN Sending(c, r, FALSE)
                                      ELSE Raising(c, "NoActiveNode")]
  /\ UNCHANGED <<config, rpcUrls, activeUrl, timeout, timers, initPc, inits, offered, passes, probed, destroyed, passResult>>

\* CallSucceeds clearing the failed flag of the endpoint that answered.
CallSucceedsClearsFailed(s) ==
  /\ calls[s].pc = "sent"
  /\ calls[s].op \in {"rpc", "batch"}
  /\ calls' = [calls EXCEPT ![s] = Returning(@)]
  /\ rpcUrls' = [rpcUrls EXCEPT ![calls[s].type] =
                    [i \in 1..Len(@) |-> IF @[i].url = calls[s].url
                                          THEN [@[i] EXCEPT !.failed = FALSE] ELSE @[i]]]
  /\ UNCHANGED <<config, activeUrl, timeout, timers, initPc, inits, offered, passes, probed,
                 destroyed, passResult>>

\* connector.rpcCall resolves: the response goes back to the caller.
CallSucceeds(s) ==
  /\ calls[s].pc = "sent"
  /\ calls[s].op \in {"rpc", "batch"}
  /\ calls' = [calls EXCEPT ![s] = Returning(@)]
  /\ UNCHANGED <<config, rpcUrls, activeUrl, timeout, timers, initPc, inits, offered, passes, probed, destroyed, passResult>>

\* connector.rpcCall rejects: the catch block up to the end of
\* handleFailedRpcCall (which throws, or leaves the call about to recurse).
CallFails(s) ==
  /\ calls[s].pc = "sent"
  /\ calls[s].op \in {"rpc", "batch"}
  /\ LET h == handleFailedRpcCall(Registry(rpcUrls, activeUrl), calls[s].type,
                                  config.allowedBlocksBehind)
     IN /\ rpcUrls' = h.reg.rpcUrls
        /\ activeUrl' = h.reg.activeUrl
        /\ calls' = [calls EXCEPT ![s] = IF h.threw THEN Raising(@, "Transport")
                                         ELSE [@ EXCEPT !.pc = "retry"]]
  /\ UNCHANGED <<config, timeout, timers, initPc, inits, offered, passes, probed, destroyed, passResult>>

\* The recursive call after a failover: this.rawRpcCall(rpcCall) or
\* this.rawBatchRpcCall(rpcCall), up to its await of connector.rpcCall.
CallRetry(s) ==
  /\ calls[s].pc = "retry"
  /\ LET c == calls[s]
         flag == IF c.op = "rpc" THEN retryArchiveFlag(c.flag) ELSE FALSE
         r == IF c.op = "rpc" THEN resolveRpc(activeUrl, flag)
              ELSE getActiveArchiveUrlWithFallback(activeUrl)
     IN calls' = [calls EXCEPT ![s] = IF r.ok THEN Sending(c, r, flag)
                                      ELSE Raising(c, "NoActiveNode")]
  /\ UNCHANGED <<config, rpcUrls, activeUrl, timeout, timers, initPc, inits, offered, passes, probed, destroyed, passResult>>

\* post({path, body}) up to its await of connector.post.
Post(s) ==
  /\ Over(calls[s])
  /\ LET r == getActiveNormalUrlWithFallback(activeUrl)
         c == [Idle EXCEPT !.op = "post"]
     IN calls' = [calls EXCEPT ![s] = IF r.ok THEN Sending(c, r, FALSE)
                                      ELSE Raising(c, "NoActiveNode")]
  /\ UNCHANGED <<config, rpcUrls, activeUrl, timeout, timers, initPc, inits, offered, passes, probed, destroyed, passResult>>

\* connector.post resolves.
PostSucceeds(s) ==
  /\ calls[s].pc = "sent"
  /\ calls[s].op = "post"
  /\ calls' = [calls EXCEPT ![s] = Returning(@)]
  /\ UNCHANGED <<config, rpcUrls, activeUrl, timeout, timers, initPc, inits, offered, passes, probed, destroyed, passResult>>

\* The catch block of post handling the failure as rawRpcCall does.
postCatchFailover(reg, nodeType, allowedBlocksBehind) ==
  handleFailedRpcCall(reg, nodeType, allowedBlocksBehind)

\* The catch block of post: it logs and rethrows, the registry is not touched.
postCatch(reg, nodeType, allowedBlocksBehind) == [threw |-> TRUE, reg |-> reg]

\* connector.post rejects.
PostFails(s) ==
  /\ calls[s].pc = "sent"
  /\ calls[s].op = "post"
  /\ LET h == postCatch(Registry(rpcUrls, activeUrl), calls[s].type, config.allowedBlocksBehind)
     IN /\ rpcUrls' = h.reg.rpcUrls
        /\ activeUrl' = h.reg.activeUrl
        /\ calls' = [calls EXCEPT ![s] = IF h.threw THEN Raising(@, "Transport")
                                         ELSE [@ EXCEPT !.pc = "retry"]]
  /\ UNCHANGED <<config, timeout, timers, initPc, inits, offered, passes, probed, destroyed, passResult>>

\* ------------------------------------------------------------------------
\* Status probe and scheduler
\* ------------------------------------------------------------------------
\* setTimeout returns a handle no pending timer has.  (Every setTimeout of the
\* source stores its handle in this.timeout at once, so a handle whose timer
\* has fired or was cleared can be handed out again.)
NewTimer(pending) ==
  CHOOSE t \in 1..(Cardinality(pending) + 1) :
    t \notin pending /\ \A u \in 1..(Cardinality(pending) + 1) : u \notin pending => t <= u

\* A checkStatuses() in progress: the kind being probed and, per endpoint of
\* that kind, the state of its fetch (pending, json: response arrived and
\* res.json() awaited, done).
StartProbes(nodeType) ==
  [nodeType |-> nodeType, probes |-> [i \in 1..Len(rpcUrls[nodeType]) |-> "pending"]]

\* Utils.parseStatusPayload: the height of a truthy result; it throws for a
\* network that is neither UTXO nor EVM based.
parseStatusPayload(network, result) ==
  IF network = EVM THEN [threw |-> FALSE, height |-> result]
  ELSE [threw |-> TRUE, height |-> 0]

\* What a probe's HTTP exchange may bring: res.ok, whether the body is JSON,
\* and response.result (0: absent or falsy).
Responses ==
  { [ok |-> o, json |-> j, result |-> r] : o \in BOOLEAN, j \in BOOLEAN, r \in 0..MaxBlock }

\* The then-callback after `await res.json()`, and the catch-callback.
probeOutcome(server, network, res) ==
  IF ~res.json THEN [server EXCEPT !.failed = TRUE]
  ELSE IF res.ok /\ res.result # 0
  THEN LET parsed == parseStatusPayload(network, res.result)
       IN IF parsed.threw THEN [server EXCEPT !.failed = TRUE]
          ELSE [server EXCEPT !.failed = FALSE, !.lastBlock = parsed.height]
  ELSE [server EXCEPT !.failed = TRUE]

\* fetchWithTimeout resolves: first half of the then-callback.
ProbeResponse(p, i) ==
  /\ passes[p].probes[i] = "pending"
  /\ \E responseTime \in 1..MaxRt :
       rpcUrls' = [rpcUrls EXCEPT ![passes[p].nodeType][i].lastResponseTime = responseTime]
  /\ passes' = [passes EXCEPT ![p].probes[i] = "json"]
  /\ UNCHANGED <<config, activeUrl, timeout, timers, initPc, inits, offered, probed, calls, destroyed, passResult>>

\* res.json() settles: second half of the then-callback (or the catch).
ProbeJson(p, i) ==
  /\ passes[p].probes[i] = "json"
  /\ \E res \in Responses :
       rpcUrls' = [rpcUrls EXCEPT ![passes[p].nodeType][i] = probeOutcome(@, config.network, res)]
  /\ passes' = [passes EXCEPT ![p].probes[i] = "done"]
  /\ UNCHANGED <<config, activeUrl, timeout, timers, initPc, inits, offered, probed, calls, destroyed, passResult>>

\* fetchWithTimeout rejects (timeout, transport error): the catch-callback.
ProbeError(p, i) ==
  /\ passes[p].probes[i] = "pending"
  /\ rpcUrls' = [rpcUrls EXCEPT ![passes[p].nodeType][i].failed = TRUE]
  /\ passes' = [passes EXCEPT ![p].probes[i] = "done"]
  /\ UNCHANGED <<config, activeUrl, timeout, timers, initPc, inits, offered, probed, calls, destroyed, passResult>>

\* The then-callback of Promise.allSettled in checkStatus.
selectActive(active, servers, nodeType, allowedBlocksBehind) ==
  LET fastest == getFastestServer(servers, allowedBlocksBehind)
  IN IF fastest.index # -1
     THEN [active EXCEPT ![nodeType] = [url |-> fastest.url, index |-> fastest.index]]
     ELSE active

\* Settled not waiting for the probes.
SettledEarly(pass) == TRUE

Settled(pass) == \A i \in 1..Len(pass.probes) : pass.probes[i] = "done"

RemoveAt(seq, p) == [i \in 1..(Len(seq) - 1) |-> IF i < p THEN seq[i] ELSE seq[i + 1]]

\* checkStatus(NORMAL) completes; checkStatuses goes on to checkStatus(ARCHIVE).
PassNormalDone(p) ==
  /\ passes[p].nodeType = NORMAL
  /\ Settled(passes[p])
  /\ activeUrl' = selectActive(activeUrl, rpcUrls[NORMAL], NORMAL, config.allowedBlocksBehind)
  /\ passes' = [passes EXCEPT ![p] = StartProbes(ARCHIVE)]
  /\ UNCHANGED <<config, rpcUrls, timeout, timers, initPc, inits, offered, probed, calls, destroyed, passResult>>

\* PassArchiveDone without the setTimeout for the next pass.
PassArchiveDoneNoReschedule(p) ==
  /\ passes[p].nodeType = ARCHIVE
  /\ Settled(passes[p])
  /\ LET active == selectActive(activeUrl, rpcUrls[ARCHIVE], ARCHIVE, config.allowedBlocksBehind)
         threw == active[NORMAL].url = NoUrl /\ active[ARCHIVE].url = NoUrl
     IN /\ activeUrl' = active
        /\ passResult' = IF threw THEN "NoActiveNode" ELSE "ok"
        /\ timers' = timers \ {timeout}
  /\ passes' = RemoveAt(passes, p)
  /\ initPc' = IF config.oneTimeLoadBalancing THEN "idle" ELSE initPc
  /\ UNCHANGED <<config, rpcUrls, timeout, inits, offered, probed, calls, destroyed>>

\* checkStatus(ARCHIVE) completes; the rest of checkStatuses: it throws when
\* no kind has an active url, else (periodic mode) it clears the stored
\* handle and installs the next timer.
PassArchiveDone(p) ==
  /\ passes[p].nodeType = ARCHIVE
  /\ Settled(passes[p])
  /\ LET active == selectActive(activeUrl, rpcUrls[ARCHIVE], ARCHIVE, config.allowedBlocksBehind)
         threw == active[NORMAL].url = NoUrl /\ active[ARCHIVE].url = NoUrl
     IN /\ activeUrl' = active
        /\ passResult' = IF threw THEN "NoActiveNode" ELSE "ok"
        /\ IF threw \/ config.oneTimeLoadBalancing
           THEN UNCHANGED <<timeout, timers>>
           ELSE /\ timeout' = NewTimer(timers \ {timeout})
                /\ timers' = (timers \ {timeout}) \cup {NewTimer(timers \ {timeout})}
  /\ passes' = RemoveAt(passes, p)
  /\ initPc' = IF config.oneTimeLoadBalancing THEN "idle" ELSE initPc
  /\ UNCHANGED <<config, rpcUrls, inits, offered, probed, calls, destroyed>>

\* A pending timer fires: () => this.checkStatuses().
TimerFires(t) ==
  /\ t \in timers
  /\ timers' = timers \ {t}
  /\ passes' = Append(passes, StartProbes(NORMAL))
  /\ probed' = TRUE
  /\ UNCHANGED <<config, rpcUrls, activeUrl, timeout, initPc, inits, offered, calls, destroyed, passResult>>

\* destroy(): clearTimeout(this.timeout).  (A call that neither clears a
\* timer nor is the first since init changes nothing and is left out.)
Destroy ==
  /\ timeout \in timers \/ ~destroyed
  /\ timers' = timers \ {timeout}
  /\ destroyed' = TRUE
  /\ UNCHANGED <<config, rpcUrls, activeUrl, timeout, initPc, inits, offered, passes, probed, calls, passResult>>

\* ------------------------------------------------------------------------
\* init()
\* ------------------------------------------------------------------------
UrlsOf(nodes) == { nodes[i].url : i \in 1..Len(nodes) }

\* Schedule installing a timer in one-shot mode as well.
ScheduleWithTimer(next) ==
  /\ rpcUrls' = next.rpcUrls
  /\ activeUrl' = next.activeUrl
  /\ passes' = Append(passes,
        [nodeType |-> NORMAL, probes |-> [i \in 1..Len(next.rpcUrls[NORMAL]) |-> "pending"]])
  /\ initPc' = "checking"
  /\ probed' = TRUE
  /\ timeout' = NewTimer(timers)
  /\ timers' = timers \cup {NewTimer(timers)}

\* Lines 80-89 of init: install the first timer, or run one pass and await it.
\* next is the registry bootstrap left.
Schedule(next) ==
  /\ rpcUrls' = next.rpcUrls
  /\ activeUrl' = next.activeUrl
  /\ IF config.oneTimeLoadBalancing
     THEN /\ passes' = Append(passes,
                [nodeType |-> NORMAL,
                 probes |-> [i \in 1..Len(next.rpcUrls[NORMAL]) |-> "pending"]])
          /\ initPc' = "checking"
          /\ probed' = TRUE
          /\ UNCHANGED <<timeout, timers>>
     ELSE /\ timeout' = NewTimer(timers)
          /\ timers' = timers \cup {NewTimer(timers)}
          /\ initPc' = "idle"
          /\ UNCHANGED <<passes, probed>>

\* init() with config.rpc.nodes: initCustomNodes, then the scheduling.
InitStatic(maxInits) ==
  /\ initPc = "idle"
  /\ inits < maxInits
  /\ config.hasNodes
  /\ inits' = inits + 1
  /\ destroyed' = FALSE
  /\ offered' = offered \cup UrlsOf(config.nodes)
  /\ \E next \in initCustomNodes(Registry(rpcUrls, activeUrl), config.nodes) : Schedule(next)
  /\ UNCHANGED <<config, calls, passResult>>

\* init() without nodes: initRemoteHostsUrls up to its await of the fetches.
InitRemote(maxInits) ==
  /\ initPc = "idle"
  /\ inits < maxInits
  /\ ~config.hasNodes
  /\ inits' = inits + 1
  /\ destroyed' = FALSE
  /\ initPc' = "fetch"
  /\ UNCHANGED <<config, rpcUrls, activeUrl, timeout, timers, offered, passes, probed, calls, passResult>>

\* What one manifest fetch may bring: the Promise.all rejected, a non-OK
\* response, an OK response whose body is not JSON, an OK response with nodes.
Failure(kind) == [kind |-> kind, nodes |-> <<>>]
Ok(nodes) == [kind |-> "ok", nodes |-> nodes]
Fetched(manifests) ==
  { Failure(k) : k \in {"rejected", "notOk", "badJson"} } \cup { Ok(m) : m \in manifests }

\* The fetches settle; the normal manifest is handled.
InitNormalManifest(fetched) ==
  /\ initPc = "fetch"
  /\ \E f \in fetched :
       /\ offered' = offered \cup UrlsOf(f.nodes)
       /\ IF f.kind \in {"rejected", "badJson"}
          THEN Schedule(Registry(rpcUrls, activeUrl))
          ELSE /\ \E next \in initBothTypes(Registry(rpcUrls, activeUrl), f.nodes, FALSE) :
                    /\ rpcUrls' = next.rpcUrls
                    /\ activeUrl' = next.activeUrl
               /\ initPc' = "archive"
               /\ UNCHANGED <<timeout, timers, passes, probed>>
  /\ UNCHANGED <<config, inits, calls, destroyed, passResult>>

\* The archive manifest is handled; init goes on to the scheduling.
InitArchiveManifest(fetched) ==
  /\ initPc = "archive"
  /\ \E f \in fetched :
       /\ offered' = offered \cup UrlsOf(f.nodes)
       /\ \E next \in initBothTypes(Registry(rpcUrls, activeUrl), f.nodes, FALSE) : Schedule(next)
  /\ UNCHANGED <<config, inits, calls, destroyed, passResult>>

\* ------------------------------------------------------------------------
\* The balancer
\* ------------------------------------------------------------------------
InitWith(configs) ==
  /\ config \in configs
  /\ rpcUrls = [k \in RpcNodeType |-> <<>>]
  /\ activeUrl = [k \in RpcNodeType |-> EmptyActive]
  /\ timeout = 0
  /\ timers = {}
  /\ initPc = "idle"
  /\ inits = 0
  /\ offered = {}
  /\ passes = <<>>
  /\ probed = FALSE
  /\ calls = [s \in Slots |-> Idle]
  /\ destroyed = FALSE
  /\ passResult = "none"

Bootstrap(maxInits, normal, archive) ==
  \/ InitStatic(maxInits)
  \/ InitRemote(maxInits)
  \/ InitNormalManifest(normal)
  \/ InitArchiveManifest(archive)

Probing ==
  \/ \E t \in timers : TimerFires(t)
  \/ \E p \in 1..Len(passes) : \E i \in 1..Len(passes[p].probes) : ProbeResponse(p, i)
  \/ \E p \in 1..Len(passes) : \E i \in 1..Len(passes[p].probes) : ProbeJson(p, i)
  \/ \E p \in 1..Len(passes) : \E i \in 1..Len(passes[p].probes) : ProbeError(p, i)
  \/ \E p \in 1..Len(passes) : PassNormalDone(p)
  \/ \E p \in 1..Len(passes) : PassArchiveDone(p)
  \/ Destroy

Dispatching(slots) ==
  \/ \E s \in slots : \E archive \in BOOLEAN : RawRpcCall(s, archive)
  \/ \E s \in slots : RawBatchRpcCall(s)
  \/ \E s \in slots : CallSucceeds(s)
  \/ \E s \in slots : CallFails(s)
  \/ \E s \in slots : CallRetry(s)
  \/ \E s \in slots : Post(s)
  \/ \E s \in slots : PostSucceeds(s)
  \/ \E s \in slots : PostFails(s)

\* The whole balancer: any interleaving of init, probe passes, client calls
\* and destroy, over small registries.
\* (a static list is bootstrapped in one-shot mode here, a manifest in both modes)
SmallLists == { <<>>, <<Node(UrlA, NORMAL)>> }
SmallNormal == { Ok(<<Node(UrlA, NORMAL)>>), Ok(<<Node(UrlB, ARCHIVE)>>) }
SmallArchive == { Failure("notOk") }
Init ==
  InitWith({ c \in ConfigsOver(SmallLists, {0}, {EVM}) :
               /\ c.hasNodes <=> c.nodes # <<>>
               /\ c.hasNodes => c.oneTimeLoadBalancing })
Next == Bootstrap(MaxInits, SmallNormal, SmallArchive) \/ Probing \/ Dispatching({1})
Spec == Init /\ [][Next]_vars

\* The dispatcher over a registry bootstrapped once and probed periodically.
DispatchLists == { <<>>, <<Node(UrlA, NORMAL)>> }
DispatchNormal ==
  { Failure("notOk"), Ok(<<Node(UrlA, NORMAL), Node(UrlB, NORMAL)>>),
    Ok(<<Node(UrlA, NORMAL), Node(UrlB, ARCHIVE)>>) }
DispatchArchive == { Failure("notOk"), Ok(<<Node(UrlC, ARCHIVE)>>) }
InitDispatch ==
  InitWith({ c \in ConfigsOver(DispatchLists, 0..MaxAllowed, {EVM}) :
               ~c.oneTimeLoadBalancing /\ (c.hasNodes <=> c.nodes # <<>>) })
NextDispatch == Bootstrap(1, DispatchNormal, DispatchArchive) \/ Probing \/ Dispatching({1})
SpecDispatch == InitDispatch /\ [][NextDispatch]_vars

\* Bootstrap alone, in both modes.
InitBoot == InitWith(Configs)
NextBoot == Bootstrap(MaxInits, Fetched(Manifests), Fetched(Manifests) \ {Failure("rejected")})
SpecBoot == InitBoot /\ [][NextBoot]_vars

\* The scheduler: init in both modes, probe passes, timers and destroy.
\* (two kinds are bootstrapped in one-shot mode here, one kind in both modes)
SchedLists == { <<>>, <<Node(UrlA, NORMAL)>> }
SchedNormal ==
  { Failure("rejected"), Ok(<<Node(UrlA, NORMAL)>>),
    Ok(<<Node(UrlA, NORMAL), Node(UrlB, ARCHIVE)>>) }
SchedPeriodic == { Ok(<<Node(UrlA, NORMAL)>>) }
SchedArchive == { Failure("notOk") }
InitSched ==
  InitWith({ c \in ConfigsOver(SchedLists, {0}, {EVM}) :
               /\ c.hasNodes \/ c.nodes = <<>>
               /\ c.hasNodes => c.oneTimeLoadBalancing })
NextSched ==
  \/ Bootstrap(MaxInits, IF config.oneTimeLoadBalancing THEN SchedNormal ELSE SchedPeriodic,
               SchedArchive)
  \/ Probing
SpecSched == InitSched /\ [][NextSched]_vars

\* The selection policy over probed registries: a NORMAL list of up to
\* MaxServers endpoints whose probes of the pass in flight have all settled
\* with some block height, response time and failed flag; the pass then
\* selects, and a client call fails over.
SelBlocks == {100, 108, 110}
SelTimes == {20, 200}
SelAllowed == {0, 5}
UrlAt(i) == IF i = 1 THEN UrlA ELSE IF i = 2 THEN UrlB ELSE UrlC
ProbedStatus(i) ==
  { [url |-> UrlAt(i), lastBlock |-> b, lastResponseTime |-> t, failed |-> f] :
      b \in SelBlocks, t \in SelTimes, f \in BOOLEAN }
ProbedLists ==
  UNION { { servers \in [1..n -> UNION { ProbedStatus(i) : i \in 1..n }] :
              \A i \in 1..n : servers[i].url = UrlAt(i) } : n \in 1..MaxServers }
InitSelect ==
  /\ config \in { c \in ConfigsOver({<<>>}, SelAllowed, {EVM}) :
                    ~c.hasNodes /\ ~c.oneTimeLoadBalancing }
  /\ \E servers \in ProbedLists : \E randomIndex \in 0..(Len(servers) - 1) :
       /\ rpcUrls = [k \in RpcNodeType |-> IF k = NORMAL THEN servers ELSE <<>>]
       /\ activeUrl = [k \in RpcNodeType |->
                         IF k = NORMAL
                         THEN [url |-> servers[randomIndex + 1].url, index |-> randomIndex]
                         ELSE EmptyActive]
       /\ offered = { servers[i].url : i \in 1..Len(servers) }
       /\ passes = << [nodeType |-> NORMAL, probes |-> [i \in 1..Len(servers) |-> "done"]] >>
  /\ timeout = 1
  /\ timers = {}
  /\ initPc = "idle"
  /\ inits = 1
  /\ probed = TRUE
  /\ calls = [s \in Slots |-> Idle]
  /\ destroyed = FALSE
  /\ passResult = "none"
NextSelect ==
  \/ \E p \in 1..Len(passes) : PassNormalDone(p)
  \/ \E p \in 1..Len(passes) : PassArchiveDone(p)
  \/ RawRpcCall(1, FALSE)
  \/ CallFails(1)
  \/ CallRetry(1)
SpecSelect == InitSelect /\ [][NextSelect]_vars

\* The probe: one Remote-mode init on an EVM or a Tron network, in either
\* scheduling mode, then probe passes, timers and destroy.
ProbeNormal ==
  { Ok(<<Node(UrlA, NORMAL), Node(UrlB, NORMAL)>>),
    Ok(<<Node(UrlA, NORMAL), Node(UrlB, ARCHIVE)>>) }
ProbeArchive == { Failure("notOk") }
InitProbe == InitWith({ c \in ConfigsOver({<<>>}, {0}, Networks) : ~c.hasNodes })
NextProbe ==
  \/ InitRemote(1)
  \/ InitNormalManifest(ProbeNormal)
  \/ InitArchiveManifest(ProbeArchive)
  \/ Probing
SpecProbe == InitProbe /\ [][NextProbe]_vars

\* Periodic probing left to itself: one Remote-mode init without
\* oneTimeLoadBalancing, no destroy; the event loop runs every timer that is
\* due and every probe request settles (fetchWithTimeout aborts after its
\* timeout), hence the weak fairness of the probing steps.
ProbingLive ==
  \/ \E t \in timers : TimerFires(t)
  \/ \E p \in 1..Len(passes) : \E i \in 1..Len(passes[p].probes) : ProbeResponse(p, i)
  \/ \E p \in 1..Len(passes) : \E i \in 1..Len(passes[p].probes) : ProbeJson(p, i)
  \/ \E p \in 1..Len(passes) : \E i \in 1..Len(passes[p].probes) : ProbeError(p, i)
  \/ \E p \in 1..Len(passes) : PassNormalDone(p)
  \/ \E p \in 1..Len(passes) : PassArchiveDone(p)
LiveNormal == ProbeNormal \cup { Failure("notOk") }
InitLive ==
  InitWith({ c \in ConfigsOver({<<>>}, {0}, Networks) :
               ~c.hasNodes /\ ~c.oneTimeLoadBalancing })
NextLive ==
  \/ InitRemote(1)
  \/ InitNormalManifest(LiveNormal)
  \/ InitArchiveManifest(ProbeArchive)
  \/ ProbingLive
SpecLive == InitLive /\ [][NextLive]_vars /\ WF_vars(ProbingLive)

\* The dispatcher alone: an instance whose init has just returned in periodic
\* mode (registry as bootstrap left it, first timer pending), and client
\* calls made one after the other with nothing else running.
CallLists ==
  { <<Node(UrlA, NORMAL)>>,
    <<Node(UrlA, NORMAL), Node(UrlB, ARCHIVE)>> }
CallNormal ==
  { <<Node(UrlA, NORMAL)>>,
    <<Node(UrlA, NORMAL), Node(UrlB, NORMAL)>>,
    <<Node(UrlA, NORMAL), Node(UrlB, ARCHIVE)>> }
CallArchive == { <<>>, <<Node(UrlC, ARCHIVE)>> }
EmptyRegistry == Registry([k \in RpcNodeType |-> <<>>], [k \in RpcNodeType |-> EmptyActive])
BootstrappedStatic(nodes) == initCustomNodes(EmptyRegistry, nodes)
BootstrappedRemote(normal, archive) ==
  UNION { initBothTypes(r, archive, FALSE) : r \in initBothTypes(EmptyRegistry, normal, FALSE) }
InitCall ==
  /\ config \in { c \in ConfigsOver(CallLists \cup {<<>>}, {0}, {EVM}) :
                    ~c.oneTimeLoadBalancing /\ (c.hasNodes <=> c.nodes # <<>>) }
  /\ \E reg \in IF config.hasNodes THEN BootstrappedStatic(config.nodes)
                  ELSE UNION { BootstrappedRemote(n, a) : n \in CallNormal, a \in CallArchive } :
       /\ rpcUrls = reg.rpcUrls
       /\ activeUrl = reg.activeUrl
       /\ offered = UNION { { reg.rpcUrls[k][i].url : i \in 1..Len(reg.rpcUrls[k]) } :
                             k \in RpcNodeType }
  /\ timeout = 1
  /\ timers = {1}
  /\ initPc = "idle"
  /\ inits = 1
  /\ passes = <<>>
  /\ probed = FALSE
  /\ calls = [s \in Slots |-> Idle]
  /\ destroyed = FALSE
  /\ passResult = "none"
NextCall == Dispatching({1})
SpecCall == InitCall /\ [][NextCall]_vars

\* ------------------------------------------------------------------------
\* Properties
\* ------------------------------------------------------------------------
AllFailed(servers) == \A i \in 1..Len(servers) : servers[i].failed

\* C1: in every reachable state, for each kind k, if active[k] has a url then
\* active[k].index is a position of endpoints[k] and the endpoint at that
\* position has the url of active[k].
C1_ActiveIndexValid ==
  \A k \in RpcNodeType :
    activeUrl[k].url # NoUrl =>
      /\ activeUrl[k].index \in 0..(Len(rpcUrls[k]) - 1)
      /\ rpcUrls[k][activeUrl[k].index + 1].url = activeUrl[k].url

\* A probe pass or a failover has moved active[k] off a failed first endpoint.
C1_Witness ==
  \E k \in RpcNodeType :
    /\ Len(rpcUrls[k]) >= 2
    /\ activeUrl[k].index = 1
    /\ rpcUrls[k][1].failed
    /\ inits = MaxInits

\* The kind a call with this archive argument resolves to is still type.
StillResolves(archive, type) ==
  LET first == IF archive THEN ARCHIVE ELSE NORMAL
  IN type = IF activeUrl[first].url # NoUrl THEN first ELSE OtherType(first)

\* C2: basic failover.  When a rawRpcCall request sent to the active endpoint
\* A of the resolved kind fails while another endpoint of that kind is not
\* failed, A becomes failed and active[kind] becomes the Selection Policy
\* winner, an endpoint other than A; the retry sends the request to the
\* active endpoint of that kind (as long as the caller's archive argument
\* still resolves to that kind); and the response returned is the one of the
\* endpoint the last request went to.
C2_BasicFailover ==
  [][\A s \in Slots :
       LET c == calls[s]
           d == calls'[s]
       IN /\ ( /\ c.pc = "sent" /\ c.op = "rpc" /\ d.pc \in {"retry", "raised"}
               /\ activeUrl[c.type].index = c.sentIdx
               /\ \E i \in 1..Len(rpcUrls[c.type]) :
                    i # c.sentIdx + 1 /\ ~rpcUrls[c.type][i].failed )
             => /\ rpcUrls'[c.type][c.sentIdx + 1].failed
                /\ d.pc = "retry"
                /\ activeUrl'[c.type].index # c.sentIdx
                /\ ~rpcUrls'[c.type][activeUrl'[c.type].index + 1].failed
          /\ (c.pc = "retry" /\ c.op = "rpc" /\ d.pc = "sent" /\ StillResolves(c.archive, c.type))
             => d.type = c.type /\ d.url = activeUrl[c.type].url
          /\ (c.pc = "sent" /\ c.op = "rpc" /\ d.pc = "returned") => d.url = c.url
    ]_vars

\* C3: the retry of rawRpcCall(request, archive = true) resolves its URL
\* ARCHIVE-first: it goes to the ARCHIVE active endpoint when there is one,
\* else to the NORMAL one.
C3_RetryKeepsArchive ==
  [][\A s \in Slots :
       LET c == calls[s]
           d == calls'[s]
       IN (c.pc = "retry" /\ c.op = "rpc" /\ c.archive /\ d.pc = "sent")
          => d.url = IF activeUrl[ARCHIVE].url # NoUrl THEN activeUrl[ARCHIVE].url
                     ELSE activeUrl[NORMAL].url
    ]_vars

C5_TotalExhaustion ==
  [][\A s \in Slots :
       LET c == calls[s]
           d == calls'[s]
           a == activeUrl[c.type].index
       IN ( /\ c.pc = "sent" /\ c.op \in {"rpc", "batch"} /\ d.pc \in {"retry", "raised"}
            /\ \A i \in 1..Len(rpcUrls[c.type]) : i # a + 1 => rpcUrls[c.type][i].failed )
          => /\ d.pc = "raised" /\ d.err = "Transport"
             /\ rpcUrls'[c.type][a + 1].failed
             /\ activeUrl' = activeUrl
    ]_vars

\* A call has raised after its kind's last endpoint failed, and that kind has
\* more than one endpoint.
C5_Witness ==
  \E s \in Slots : \E k \in RpcNodeType :
    /\ calls[s].pc = "raised" /\ calls[s].err = "Transport" /\ calls[s].op = "batch"
    /\ Len(rpcUrls[k]) >= 2 /\ AllFailed(rpcUrls[k])
    /\ activeUrl[k].url # NoUrl

\* C6: URL resolution of rawRpcCall.  With archive it sends to active[ARCHIVE]
\* if that has a url, else to active[NORMAL]; without, to active[NORMAL] if
\* that has a url, else to active[ARCHIVE]; with neither it raises the
\* no-active-node error, sends nothing and leaves the registry alone.
C6_UrlResolution ==
  [][\A s \in Slots :
       LET c == calls[s]
           d == calls'[s]
           first == IF d.archive THEN ARCHIVE ELSE NORMAL
       IN (Over(c) /\ d # c /\ d.op = "rpc")
          => IF activeUrl[first].url # NoUrl
             THEN d.pc = "sent" /\ d.type = first /\ d.url = activeUrl[first].url
             ELSE IF activeUrl[OtherType(first)].url # NoUrl
             THEN /\ d.pc = "sent" /\ d.type = OtherType(first)
                  /\ d.url = activeUrl[OtherType(first)].url
             ELSE /\ d.pc = "raised" /\ d.err = "NoActiveNode" /\ d.sent = 0
                  /\ rpcUrls' = rpcUrls /\ activeUrl' = activeUrl
    ]_vars

\* A rawRpcCall without archive went to the ARCHIVE active endpoint because
\* NORMAL has none.
C6_Witness ==
  \E s \in Slots :
    /\ calls[s].pc = "sent" /\ calls[s].op = "rpc" /\ ~calls[s].archive
    /\ calls[s].sent = 1 /\ calls[s].type = ARCHIVE
    /\ activeUrl[NORMAL].url = NoUrl

\* C7: every attempt of rawBatchRpcCall, the retries included, goes to
\* active[ARCHIVE] if that has a url, else to active[NORMAL]; a failure marks
\* the active endpoint of the kind that was resolved, and no other endpoint,
\* then re-selects within that kind or raises as rawRpcCall does.
C7_BatchArchiveFirst ==
  [][\A s \in Slots :
       LET c == calls[s]
           d == calls'[s]
           a == activeUrl[c.type].index
       IN /\ (d.op = "batch" /\ d.pc = "sent" /\ d # c)
             => IF activeUrl[ARCHIVE].url # NoUrl
                THEN d.type = ARCHIVE /\ d.url = activeUrl[ARCHIVE].url
                ELSE d.type = NORMAL /\ d.url = activeUrl[NORMAL].url
          /\ (c.op = "batch" /\ c.pc = "sent" /\ d.pc \in {"retry", "raised"})
             => /\ rpcUrls' = [rpcUrls EXCEPT ![c.type][a + 1].failed = TRUE]
                /\ activeUrl'[OtherType(c.type)] = activeUrl[OtherType(c.type)]
                /\ d.pc = "raised" <=> AllFailed(rpcUrls'[c.type])
                /\ d.pc = "retry" => ~rpcUrls'[c.type][activeUrl'[c.type].index + 1].failed
    ]_vars

\* A rawBatchRpcCall is on a retry that went to ARCHIVE while NORMAL has an
\* active endpoint too.
C7_Witness ==
  \E s \in Slots :
    /\ calls[s].pc = "sent" /\ calls[s].op = "batch" /\ calls[s].sent >= 2
    /\ calls[s].type = ARCHIVE
    /\ activeUrl[NORMAL].url # NoUrl

\* C8: post makes one attempt.  A post whose request is outstanding ends by
\* returning or by raising, never by a retry, and no step of post changes an
\* endpoint or active[kind].
C8_PostNoFailover ==
  [][\A s \in Slots :
       LET c == calls[s]
           d == calls'[s]
       IN /\ (c.op = "post" /\ c.pc = "sent" /\ d # c)
             => /\ d.pc \in {"returned", "raised"} /\ d.sent = 1
                /\ rpcUrls' = rpcUrls /\ activeUrl' = activeUrl
          /\ (d.op = "post" /\ d # c /\ Over(c))
             => rpcUrls' = rpcUrls /\ activeUrl' = activeUrl
    ]_vars

\* A post has raised the transport error of its one request while the
\* endpoint it used is still active and not failed.
C8_Witness ==
  \E s \in Slots : \E k \in RpcNodeType :
    /\ calls[s].pc = "raised" /\ calls[s].op = "post" /\ calls[s].err = "Transport"
    /\ calls[s].sent = 1
    /\ Len(rpcUrls[k]) >= 2
    /\ activeUrl[k].url # NoUrl
    /\ \A i \in 1..Len(rpcUrls[k]) : ~rpcUrls[k][i].failed

\* The hostname of url ends in rpc.tatum.io.
TatumHost(url) ==
  /\ Hostname(url) # <<>>
  /\ Hostname(url)[Len(Hostname(url))] = "rpc.tatum.io"

\* C9: in Remote mode every registered endpoint and every active url has a
\* hostname ending in rpc.tatum.io, so no manifest entry that fails the check
\* or does not parse is registered; in Static mode every supplied node is
\* registered under its type, whatever its host.
C9_SSRFAllowList ==
  /\ ~config.hasNodes =>
       \A k \in RpcNodeType :
         /\ \A i \in 1..Len(rpcUrls[k]) : TatumHost(rpcUrls[k][i].url)
         /\ activeUrl[k].url # NoUrl => TatumHost(activeUrl[k].url)
  /\ (config.hasNodes /\ inits >= 1) =>
       \A j \in 1..Len(config.nodes) :
         \E i \in 1..Len(rpcUrls[config.nodes[j].type]) :
           rpcUrls[config.nodes[j].type][i].url = config.nodes[j].url

\* Remote mode: the manifests offered a lookalike host and an unparseable url,
\* and endpoints of both kinds were registered.
C9_Witness ==
  /\ ~config.hasNodes
  /\ {UrlLookalike, UrlBad} \subseteq offered
  /\ \A k \in RpcNodeType : rpcUrls[k] # <<>>

\* C10: after one init in Static mode, endpoints[k] is the supplied nodes of
\* type k, in order, each once and fresh.
C10_StaticBootstrapExact ==
  (config.hasNodes /\ inits = 1) =>
    \A k \in RpcNodeType :
      LET mine == SelectSeq(config.nodes, LAMBDA node : node.type = k)
      IN rpcUrls[k] = [i \in 1..Len(mine) |-> FreshStatus(mine[i].url)]

\* C11: destroy is final for scheduling.  Once destroy has been called and
\* init has not been called since, no probe timer is pending, also when a
\* probe pass was in flight at the time of the destroy.
C11_DestroyIsFinal == destroyed => timers = {}

\* C12: at most one probe timer is pending, and at most one probe pass is in
\* flight or scheduled (a pending timer is a scheduled pass) at a time.
C12_OneProbeHandle ==
  /\ Cardinality(timers) <= 1
  /\ Len(passes) + Cardinality(timers) <= 1

\* C13: one-shot mode.  With oneTimeLoadBalancing set no timer is ever
\* installed; a probe pass is in flight exactly while init awaits it (one pass
\* per init, started by that init, NORMAL first and ARCHIVE second), init
\* returns when that pass ends, and no other pass ever starts.
C13_OneShot ==
  [][config.oneTimeLoadBalancing =>
       /\ timers = {} /\ timers' = {} /\ timeout' = 0
       /\ Len(passes) = (IF initPc = "checking" THEN 1 ELSE 0)
       /\ Len(passes') = (IF initPc' = "checking" THEN 1 ELSE 0)
       /\ Len(passes') > Len(passes) =>
            /\ inits' = inits + 1 \/ initPc \in {"fetch", "archive"}
            /\ passes'[1].nodeType = NORMAL
       /\ (passes # <<>> /\ passes' # <<>> /\ passes[1].nodeType = ARCHIVE) =>
            passes'[1].nodeType = ARCHIVE
       /\ (initPc = "checking" /\ initPc' = "idle") =>
            /\ passes[1].nodeType = ARCHIVE
            /\ passes' = <<>>
       /\ (initPc = "checking" /\ initPc' # "idle") => initPc' = "checking" /\ inits' = inits
  ]_vars

\* Both inits of a one-shot instance have returned, each after its one pass.
C13_Witness ==
  /\ config.oneTimeLoadBalancing
  /\ inits = MaxInits
  /\ initPc = "idle"
  /\ passResult = "ok"
  /\ passes = <<>>
  /\ timers = {}

\* C14: at the end of a probe pass after which every endpoint of both kinds
\* is failed (or both lists are empty), checkStatuses raises the
\* no-active-node error.
C14_RaisesWhenNoneUsable ==
  [][(Len(passes') < Len(passes) /\ \A k \in RpcNodeType : AllFailed(rpcUrls'[k]))
       => passResult' = "NoActiveNode"]_vars

\* Number of entries of an endpoint list that carry the url.
Occurrences(servers, url) == Cardinality({ i \in 1..Len(servers) : servers[i].url = url })

\* C15: bootstrap is idempotent.  A second init on the same instance leaves
\* the endpoint lists as the first init left them: no step of a second (or
\* later) init adds an endpoint that is already registered for its kind.
C15_SecondInitIdempotent ==
  [][inits' >= 2 =>
       \A k \in RpcNodeType : \A i \in 1..Len(rpcUrls[k]) :
         Occurrences(rpcUrls'[k], rpcUrls[k][i].url) = Occurrences(rpcUrls[k], rpcUrls[k][i].url)
  ]_vars

\* The bootstrap part of the first init is over.
Booted == inits >= 1 /\ ~(inits = 1 /\ initPc \in {"fetch", "archive"})

\* C16: after bootstrap, for each kind k: if endpoints[k] has an entry then
\* active[k] is set and its index is a position of endpoints[k]; if
\* endpoints[k] is empty then active[k] is empty, and stays so through every
\* later probe pass and failover.
C16_ActiveAfterBootstrap ==
  Booted =>
    \A k \in RpcNodeType :
      IF rpcUrls[k] # <<>>
      THEN /\ activeUrl[k].url # NoUrl
           /\ activeUrl[k].index \in 0..(Len(rpcUrls[k]) - 1)
      ELSE activeUrl[k] = EmptyActive

\* One kind is empty and has no active url after a probe pass has completed
\* and a failover has moved the active url of the other kind.
C16_Witness ==
  /\ Booted
  /\ rpcUrls[ARCHIVE] = <<>>
  /\ activeUrl[ARCHIVE] = EmptyActive
  /\ Len(rpcUrls[NORMAL]) = 2
  /\ passResult = "ok"
  /\ calls[1].pc = "retry"
  /\ rpcUrls[NORMAL][calls[1].sentIdx + 1].failed
  /\ activeUrl[NORMAL].index # calls[1].sentIdx

\* The winner of the reducer over the first n endpoints of the list.
WinnerOfPrefix(servers, allowedBlocksBehind, n) ==
  getFastestServer(SubSeq(servers, 1, n), allowedBlocksBehind)

\* C17: the selection policy never returns a failed endpoint: for every list
\* and every allowedBlocksBehind, the index getFastestServer returns is -1 or
\* the position of a non-failed endpoint, the url returned being that
\* endpoint's; and whenever a probe pass or a failover writes active[kind],
\* the endpoint it writes is not failed.
C17_NeverSelectsFailed ==
  /\ [](\A k \in RpcNodeType :
          LET r == getFastestServer(rpcUrls[k], config.allowedBlocksBehind)
          IN r.index # -1 =>
               /\ r.index \in 0..(Len(rpcUrls[k]) - 1)
               /\ ~rpcUrls[k][r.index + 1].failed
               /\ rpcUrls[k][r.index + 1].url = r.url)
  /\ [][\A k \in RpcNodeType :
          activeUrl'[k] # activeUrl[k] => ~rpcUrls'[k][activeUrl'[k].index + 1].failed]_vars

\* A failover has moved active[NORMAL] to a non-failed endpoint of a list
\* that holds a failed endpoint with the highest block.
C17_Witness ==
  /\ Len(rpcUrls[NORMAL]) = 3
  /\ calls[1].pc = "retry"
  /\ rpcUrls[NORMAL][1].failed /\ rpcUrls[NORMAL][1].lastBlock = 110
  /\ rpcUrls[NORMAL][3].failed
  /\ ~rpcUrls[NORMAL][2].failed /\ rpcUrls[NORMAL][2].lastBlock = 100
  /\ activeUrl[NORMAL].index = 1

\* C18: freshness rule.  Processing the list in order, a non-failed candidate
\* whose lastBlock minus allowedBlocksBehind exceeds the running winner's
\* lastBlock becomes the winner whatever the response times; for two
\* non-failed endpoints A then B with B.lastBlock - allowedBlocksBehind >
\* A.lastBlock the result is B.
C18_FreshnessRule ==
  LET servers == rpcUrls[NORMAL]
      allowed == config.allowedBlocksBehind
  IN /\ \A i \in 0..(Len(servers) - 1) :
          LET winner == WinnerOfPrefix(servers, allowed, i)
              c == servers[i + 1]
          IN (~c.failed /\ (winner.index = -1 \/ c.lastBlock - allowed > winner.lastBlock))
               => WinnerOfPrefix(servers, allowed, i + 1).index = i
     /\ (/\ Len(servers) = 2
         /\ ~servers[1].failed /\ ~servers[2].failed
         /\ servers[2].lastBlock - allowed > servers[1].lastBlock)
          => getFastestServer(servers, allowed).index = 1

\* A(100, rt 20), B(110, rt 200), allowed 5: the pass has made B active.
C18_Witness ==
  /\ config.allowedBlocksBehind = 5
  /\ Len(rpcUrls[NORMAL]) = 2
  /\ rpcUrls[NORMAL][1] = [url |-> UrlA, lastBlock |-> 100, lastResponseTime |-> 20, failed |-> FALSE]
  /\ rpcUrls[NORMAL][2] = [url |-> UrlB, lastBlock |-> 110, lastResponseTime |-> 200, failed |-> FALSE]
  /\ passes # <<>> /\ passes[1].nodeType = ARCHIVE
  /\ activeUrl[NORMAL] = [url |-> UrlB, index |-> 1]

\* C19: latency rule.  For a list of two non-failed endpoints with the same
\* lastBlock and different lastResponseTime, in either order and for every
\* allowedBlocksBehind, the endpoint with the smaller lastResponseTime is
\* returned.
C19_LatencyRule ==
  LET servers == rpcUrls[NORMAL]
      r == getFastestServer(servers, config.allowedBlocksBehind)
  IN (/\ Len(servers) = 2
      /\ ~servers[1].failed /\ ~servers[2].failed
      /\ servers[1].lastBlock = servers[2].lastBlock
      /\ servers[1].lastResponseTime # servers[2].lastResponseTime)
       => /\ r.index \in {0, 1}
          /\ \A j \in 1..2 : servers[r.index + 1].lastResponseTime <= servers[j].lastResponseTime

\* Same block, the later endpoint faster: the pass has made the later one
\* active.
C19_Witness ==
  /\ Len(rpcUrls[NORMAL]) = 2
  /\ ~rpcUrls[NORMAL][1].failed /\ ~rpcUrls[NORMAL][2].failed
  /\ rpcUrls[NORMAL][1].lastBlock = rpcUrls[NORMAL][2].lastBlock
  /\ rpcUrls[NORMAL][1].lastResponseTime = 200
  /\ rpcUrls[NORMAL][2].lastResponseTime = 20
  /\ passes # <<>> /\ passes[1].nodeType = ARCHIVE
  /\ activeUrl[NORMAL].index = 1
  /\ config.allowedBlocksBehind = 5

\* C20: tie-break.  The incumbent winner stays whenever a later non-failed
\* candidate is neither ahead by strictly more than allowedBlocksBehind nor on
\* the same block with a strictly smaller response time; two endpoints equal
\* in lastBlock and lastResponseTime yield the earlier one, and A(108, rt 20),
\* B(110, rt 200) with allowedBlocksBehind 5 yields A.
C20_TieBreak ==
  LET servers == rpcUrls[NORMAL]
      allowed == config.allowedBlocksBehind
  IN /\ \A i \in 1..(Len(servers) - 1) :
          LET winner == WinnerOfPrefix(servers, allowed, i)
              c == servers[i + 1]
          IN (/\ winner.index # -1
              /\ ~c.failed
              /\ ~(c.lastBlock - allowed > winner.lastBlock)
              /\ ~(c.lastBlock = winner.lastBlock /\ c.lastResponseTime < winner.lastResponseTime))
               => WinnerOfPrefix(servers, allowed, i + 1) = winner
     /\ (/\ Len(servers) = 2
         /\ ~servers[1].failed /\ ~servers[2].failed
         /\ servers[1].lastBlock = servers[2].lastBlock
         /\ servers[1].lastResponseTime = servers[2].lastResponseTime)
          => getFastestServer(servers, allowed).index = 0
     /\ (/\ allowed = 5
         /\ Len(servers) = 2
         /\ ~servers[1].failed /\ ~servers[2].failed
         /\ servers[1].lastBlock = 108 /\ servers[1].lastResponseTime = 20
         /\ servers[2].lastBlock = 110 /\ servers[2].lastResponseTime = 200)
          => getFastestServer(servers, allowed).index = 0

\* A(108, rt 20), B(110, rt 200), allowed 5: the pass has made A active.
C20_Witness ==
  /\ config.allowedBlocksBehind = 5
  /\ Len(rpcUrls[NORMAL]) = 2
  /\ rpcUrls[NORMAL][1] = [url |-> UrlA, lastBlock |-> 108, lastResponseTime |-> 20, failed |-> FALSE]
  /\ rpcUrls[NORMAL][2] = [url |-> UrlB, lastBlock |-> 110, lastResponseTime |-> 200, failed |-> FALSE]
  /\ passes # <<>> /\ passes[1].nodeType = ARCHIVE
  /\ activeUrl[NORMAL] = [url |-> UrlA, index |-> 0]

\* A response that is OK, whose body is JSON and carries a truthy result.
Healthy(res) == res.ok /\ res.json /\ res.result # 0

\* C21: probe outcome per endpoint.  A probe that gets an OK response whose
\* JSON has a truthy result leaves the endpoint with failed = false, lastBlock
\* = the decoded height and lastResponseTime = the elapsed time; a non-OK
\* response, malformed JSON or a missing result leave it with failed = true
\* and lastBlock unchanged; a timeout or transport error leave it with failed
\* = true, lastBlock and lastResponseTime unchanged; the arrival of a
\* response changes lastResponseTime only.
C21_ProbeOutcome ==
  /\ [](\A p \in 1..Len(passes) : \A i \in 1..Len(passes[p].probes) :
          passes[p].probes[i] = "json" =>
            LET server == rpcUrls[passes[p].nodeType][i]
            IN \A res \in Responses :
                 probeOutcome(server, config.network, res) =
                   IF Healthy(res)
                   THEN [server EXCEPT !.failed = FALSE, !.lastBlock = res.result]
                   ELSE [server EXCEPT !.failed = TRUE])
  /\ [][\A p \in 1..Len(passes) :
          (Len(passes') = Len(passes) /\ passes'[p].nodeType = passes[p].nodeType) =>
            \A i \in 1..Len(passes[p].probes) :
              LET old == rpcUrls[passes[p].nodeType][i]
                  new == rpcUrls'[passes[p].nodeType][i]
                  was == passes[p].probes[i]
                  now == passes'[p].probes[i]
              IN /\ (was = "pending" /\ now = "json") =>
                      new = [old EXCEPT !.lastResponseTime = new.lastResponseTime]
                 /\ (was = "pending" /\ now = "done") => new = [old EXCEPT !.failed = TRUE]
                 /\ (was = "json" /\ now = "done") =>
                      \/ new = [old EXCEPT !.failed = TRUE]
                      \/ \E r \in 1..MaxBlock : new = [old EXCEPT !.failed = FALSE, !.lastBlock = r]
                 /\ was = now => new = old]_vars

\* C22: on a Tron network, a probe that receives an OK response with a truthy
\* result decodes the height from it and leaves the endpoint with failed =
\* false (so that the endpoint is eligible for selection).
C22_TronProbeHealthy ==
  config.network = TRON =>
    \A p \in 1..Len(passes) : \A i \in 1..Len(passes[p].probes) :
      passes[p].probes[i] = "json" =>
        \A res \in Responses :
          Healthy(res) =>
            LET out == probeOutcome(rpcUrls[passes[p].nodeType][i], TRON, res)
            IN ~out.failed /\ out.lastBlock = res.result

\* Every probe of the pass has run its callbacks to the end.
AllProbesDone(pass) == \A i \in 1..Len(pass.probes) : pass.probes[i] = "done"

\* C23: probe-pass ordering.  While the probes of a kind are outstanding or
\* settling the pass does not write active; the pass goes from NORMAL to
\* ARCHIVE only when every NORMAL probe has settled, writing at most
\* active[NORMAL] on that step and starting every ARCHIVE probe then; it ends
\* only when every ARCHIVE probe has settled, writing at most active[ARCHIVE].
C23_PassOrdering ==
  [][passes # <<>> =>
       /\ (passes' # <<>> /\ passes'[1].nodeType = passes[1].nodeType) => activeUrl' = activeUrl
       /\ (passes' # <<>> /\ passes'[1].nodeType # passes[1].nodeType) =>
            /\ passes[1].nodeType = NORMAL
            /\ AllProbesDone(passes[1])
            /\ activeUrl'[ARCHIVE] = activeUrl[ARCHIVE]
            /\ \A i \in 1..Len(passes'[1].probes) : passes'[1].probes[i] = "pending"
       /\ passes' = <<>> =>
            /\ passes[1].nodeType = ARCHIVE
            /\ AllProbesDone(passes[1])
            /\ activeUrl'[NORMAL] = activeUrl[NORMAL]
  ]_vars

\* The NORMAL probes have settled and the ARCHIVE probe is outstanding.
C23_Witness ==
  /\ Len(passes) = 1
  /\ passes[1].nodeType = ARCHIVE
  /\ Len(passes[1].probes) = 1
  /\ passes[1].probes[1] = "pending"
  /\ rpcUrls[NORMAL] # <<>>
  /\ rpcUrls[NORMAL][1].lastBlock = MaxBlock
  /\ ~rpcUrls[NORMAL][1].failed

\* init has returned and has registered at least one endpoint.
Registered ==
  /\ inits = 1
  /\ initPc = "idle"
  /\ \E k \in RpcNodeType : rpcUrls[k] # <<>>

\* C24: periodic mode liveness.  With oneTimeLoadBalancing false, at least
\* one registered endpoint, no destroy and every probe settling, a new probe
\* pass is started infinitely often: whenever no pass is in flight one starts
\* later, and every pass in flight completes and leaves the timer of the next
\* one pending (also when every probe of the pass failed).
C24_PeriodicLiveness ==
  /\ (Registered /\ passes = <<>>) ~> (passes # <<>>)
  /\ (Registered /\ passes # <<>>) ~> (passes = <<>> /\ timers # {})

\* A pass in which every probe failed has completed and the timer of the
\* next pass is pending.
C24_Witness ==
  /\ Registered
  /\ passes = <<>>
  /\ passResult = "ok"
  /\ timers # {}
  /\ \A k \in RpcNodeType : AllFailed(rpcUrls[k])

\* C25: retry is bounded.  With nothing running next to it, a rawRpcCall or
\* rawBatchRpcCall invocation sends at most N requests, N being the number of
\* endpoints registered across both kinds (a call that has sent N requests
\* and fails again raises instead of sending).
C25_RetryBounded ==
  \A s \in Slots :
    calls[s].op \in {"rpc", "batch"} =>
      calls[s].sent <= Len(rpcUrls[NORMAL]) + Len(rpcUrls[ARCHIVE])

\* An invocation has sent one request to each of the two endpoints of a
\* Remote-mode registry and has raised; no request is outstanding.
C25_Witness ==
  /\ ~config.hasNodes
  /\ Len(rpcUrls[NORMAL]) = 2
  /\ rpcUrls[ARCHIVE] = <<>>
  /\ calls[1].pc = "raised"
  /\ calls[1].err = "Transport"
  /\ calls[1].sent = 2

\* C30: no URL is attempted twice by one invocation.  After a failover, the
\* URL the invocation retries differs from the URL whose failure it has just
\* handled (the latest of the endpoints that failed in this invocation).
C30_NoUrlTwice ==
  [][\A s \in Slots :
       (calls[s].pc = "retry" /\ calls'[s].pc = "sent") => calls'[s].url # calls[s].url]_vars

\* C26: a call whose transport succeeds mutates nothing.  When
\* connector.rpcCall returns a response, rawRpcCall and rawBatchRpcCall return
\* it (the response of the endpoint the request went to) without sending
\* anything more, and leave every endpoint's failed, lastBlock and
\* lastResponseTime and both active[kind] unchanged.
C26_SuccessMutatesNothing ==
  [][\A s \in Slots :
       (calls[s].pc = "sent" /\ calls[s].op \in {"rpc", "batch"} /\ calls'[s].pc = "returned")
         => /\ rpcUrls' = rpcUrls
            /\ activeUrl' = activeUrl
            /\ calls'[s].url = calls[s].url
            /\ calls'[s].sent = calls[s].sent]_vars

\* A batch call has returned after its single request, next to an endpoint
\* that an earlier failure or probe has left failed.
C26_Witness ==
  /\ calls[1].pc = "returned"
  /\ calls[1].op = "batch"
  /\ calls[1].sent = 1
  /\ \E k \in RpcNodeType : \E i \in 1..Len(rpcUrls[k]) :
       rpcUrls[k][i].failed /\ rpcUrls[k][i].url = calls[1].url

\* Positions of the non-failed endpoints of a list.
NotFailed(servers) == { i \in 1..Len(servers) : ~servers[i].failed }

\* Positions of the non-failed endpoints whose lastBlock is within
\* allowedBlocksBehind of the highest non-failed lastBlock.
Fresh(servers, allowedBlocksBehind) ==
  { i \in NotFailed(servers) :
      \A j \in NotFailed(servers) : servers[i].lastBlock >= servers[j].lastBlock - allowedBlocksBehind }

\* The NORMAL probes of the pass have settled and this step is its selection.
NormalSelectionStep ==
  /\ passes # <<>> /\ passes' # <<>>
  /\ passes[1].nodeType = NORMAL /\ passes'[1].nodeType = ARCHIVE
  /\ NotFailed(rpcUrls[NORMAL]) # {}

C28_FreshnessBound ==
  \A k \in RpcNodeType :
    LET servers == rpcUrls[k]
        r == getFastestServer(servers, config.allowedBlocksBehind)
    IN /\ r.index = -1 <=> NotFailed(servers) = {}
       /\ r.index # -1 =>
            /\ r.index + 1 \in NotFailed(servers)
            /\ r.lastBlock = servers[r.index + 1].lastBlock
            /\ \A j \in NotFailed(servers) :
                 r.lastBlock >= servers[j].lastBlock - config.allowedBlocksBehind

\* A(108), B(110, failed), C(110), allowed 5: the pass has made A active,
\* two blocks behind the highest non-failed endpoint.
C28_Witness ==
  /\ config.allowedBlocksBehind = 5
  /\ Len(rpcUrls[NORMAL]) = 3
  /\ rpcUrls[NORMAL][1].lastBlock = 108 /\ ~rpcUrls[NORMAL][1].failed
  /\ rpcUrls[NORMAL][2].lastBlock = 110 /\ rpcUrls[NORMAL][2].failed
  /\ rpcUrls[NORMAL][3].lastBlock = 110 /\ ~rpcUrls[NORMAL][3].failed
  /\ passes # <<>> /\ passes[1].nodeType = ARCHIVE
  /\ activeUrl[NORMAL].index = 0
  /\ rpcUrls[ARCHIVE] = <<>>

\* C29: the endpoint that a failover marks failed is the endpoint the failing
\* request was sent to.  When the failure of a client call is handled, every
\* endpoint that gets failed = true in that step is the endpoint of the kind
\* the request resolved, at the index that was active when it was sent, with
\* the url it was sent to.
C29_MarksTheEndpointSentTo ==
  [][\A s \in Slots :
       (/\ calls[s].pc = "sent" /\ calls[s].op \in {"rpc", "batch"}
        /\ calls'[s].pc \in {"retry", "raised"})
         => \A k \in RpcNodeType : \A i \in 1..Len(rpcUrls'[k]) :
              (i <= Len(rpcUrls[k]) /\ rpcUrls'[k][i].failed /\ ~rpcUrls[k][i].failed)
                => /\ k = calls[s].type
                   /\ i = calls[s].sentIdx + 1
                   /\ rpcUrls[k][i].url = calls[s].url]_vars
====
